---------------------------- MODULE Spec2Model ----------------------------
(***************************************************************************)
(* A model of src/MouseMovester.py: the RandomMouseMover object, its       *)
(* background loop thread(s) and a foreground caller of start() and stop().*)
(*                                                                         *)
(* pyautogui and random are external libraries.  They are modelled by the  *)
(* outcomes their calls can have:                                          *)
(*   random.randint(a, b)  any integer of a..b; ValueError when a > b;     *)
(*   pyautogui.moveTo      the pointer is at the target, or the call       *)
(*                         raises FailSafeException or another exception;  *)
(*   pyautogui.click       a click at the pointer, or the same failures.   *)
(* pyautogui.FailSafeException derives from Exception (through             *)
(* PyAutoGUIException), so the handler of move_mouse_and_click (line 200)  *)
(* catches it.  KeyboardInterrupt is delivered to the main thread only.    *)
(* No exception therefore leaves move_mouse_and_click in the loop thread:  *)
(* the three handlers of mouse_mover_loop (lines 223-237) have no action   *)
(* here, because no state of the program enables them.                     *)
(* The console prints are left out.                                        *)
(***************************************************************************)
EXTENDS Integers, Sequences, FiniteSets, TLC

VARIABLES
    ctor,           \* position in __init__: "resolve", "regions", "ready"
    screen_width,   \* self.screen_width
    screen_height,  \* self.screen_height
    avoid_regions,  \* self.avoid_regions: a sequence of <<left, top, right, bottom>>
    running,        \* self.running
    thread,         \* self.thread: 0 is None, otherwise the id of a loop thread
    fg,             \* the foreground caller's position
    calls,          \* number of start()/stop() calls the foreground has made
    pc,             \* each loop thread's position
    cand,           \* each loop thread's x, y of move_mouse_and_click (<<>>: unset)
    exc,            \* each loop thread's caught exception e of line 200
    slept,          \* each loop thread's completed sleeps of the wait (line 218)
    mouse,          \* where the pointer was last moved to (<<>>: not moved yet)
    clicked,        \* whether a click has landed where the pointer now is
    arg,            \* argument of the last direct call of the point classifier
    ret,            \* its return value
    windows_available,  \* WINDOWS_AVAILABLE: whether win32api was imported
    os_query,       \* what GetMonitorInfo gives: the "Monitor" rectangle, or
                    \* <<>> when the query raises
    virtual_size    \* what pyautogui.size() gives

vars == <<ctor, screen_width, screen_height, avoid_regions, running, thread,
          fg, calls, pc, cand, exc, slept, mouse, clicked, arg, ret,
          windows_available, os_query, virtual_size>>

geometry == <<ctor, screen_width, screen_height, avoid_regions>>
probe == <<arg, ret>>
display == <<windows_available, os_query, virtual_size>>

-----------------------------------------------------------------------------
(* Bounds of the model *)

\* The foreground makes at most this many start()/stop() calls.
MaxCalls == 3

\* Screen dimensions run from 2*margin - 1 (too small for the generator)
\* to 2*margin + DimSpan.
DimSpan == 1

-----------------------------------------------------------------------------
(* Program constants *)

margin == 50
button_width == 50
top_bar_height == 30
taskbar_height == 40
start_menu_width == 100
WaitIters == 50

None == <<>>

\* A loop thread is created by a start() that found running false; the
\* first needs one call, every further one a stop() and a start().
Threads == 1 .. ((MaxCalls + 1) \div 2)

Dims == (2 * margin - 1) .. (2 * margin + DimSpan)

-----------------------------------------------------------------------------
(* _define_avoid_regions *)

\* Mutant: the taskbar strip is appended before the start-menu strip.
DefineAvoidRegionsSwapped(regions, w, h) ==
    Append(Append(Append(regions,
        <<w - (3 * button_width), 0, w, top_bar_height>>),
        <<0, h - taskbar_height, w, h>>),
        <<0, h - taskbar_height, start_menu_width, h>>)

DefineAvoidRegions(regions, w, h) ==
    Append(Append(Append(regions,
        <<w - (3 * button_width), 0, w, top_bar_height>>),
        <<0, h - taskbar_height, start_menu_width, h>>),
        <<0, h - taskbar_height, w, h>>)

(* is_position_in_avoid_region: the first region that holds the point
   returns True; False after the last. *)
RECURSIVE InRegionsFrom(_, _, _, _)
InRegionsFrom(regions, k, x, y) ==
    IF k > Len(regions) THEN FALSE
    ELSE LET left   == regions[k][1]
             top    == regions[k][2]
             right  == regions[k][3]
             bottom == regions[k][4]
         IN  IF left <= x /\ x <= right /\ top <= y /\ y <= bottom
             THEN TRUE
             ELSE InRegionsFrom(regions, k + 1, x, y)

\* Mutant: the right and bottom edges are exclusive.
is_position_in_avoid_region_exclusive(regions, x, y) ==
    \E k \in 1 .. Len(regions) :
        /\ regions[k][1] <= x /\ x < regions[k][3]
        /\ regions[k][2] <= y /\ y < regions[k][4]

is_position_in_avoid_region(regions, x, y) == InRegionsFrom(regions, 1, x, y)

(* random.randint(a, b): the values it can return; none when it raises
   ValueError (a > b). *)
RandInt(a, b) == a .. b

\* Mutant: the upper limits forget the margin.
get_random_position_no_upper_margin(w, h) ==
    {<<x, y>> : x \in RandInt(margin, w), y \in RandInt(margin, h)}

\* Mutant: no margin at all.
get_random_position_no_margin(w, h) ==
    {<<x, y>> : x \in RandInt(0, w), y \in RandInt(0, h)}

(* get_random_position: the points it can return; none when either
   randint raises. *)
get_random_position(w, h) ==
    {<<x, y>> : x \in RandInt(margin, w - margin),
                y \in RandInt(margin, h - margin)}

-----------------------------------------------------------------------------
(* get_primary_monitor_size *)

QueryRaises == <<>>

\* Mutant: the size of the virtual screen is returned whatever the OS says.
get_primary_monitor_size_virtual(available, query, fallback) == fallback

get_primary_monitor_size(available, query, fallback) ==
    IF available
    THEN IF query # QueryRaises
         THEN LET width  == query[3] - query[1]
                  height == query[4] - query[2]
              IN  <<width, height>>
         ELSE fallback
    ELSE fallback

-----------------------------------------------------------------------------
(* State after RandomMouseMover() *)

Idle ==
    /\ running = FALSE
    /\ thread = 0
    /\ fg = "ready"
    /\ calls = 0
    /\ pc = [t \in Threads |-> "unborn"]
    /\ cand = [t \in Threads |-> None]
    /\ exc = [t \in Threads |-> "none"]
    /\ slept = [t \in Threads |-> 0]
    /\ mouse = None
    /\ clicked = FALSE
    /\ arg = None
    /\ ret = FALSE

Init ==
    /\ ctor = "ready"
    /\ \E w \in Dims, h \in Dims :
        /\ screen_width = w
        /\ screen_height = h
        /\ avoid_regions = DefineAvoidRegions(<<>>, w, h)
        \* one monitor, which the OS query reports
        /\ windows_available = TRUE
        /\ os_query = <<0, 0, w, h>>
        /\ virtual_size = <<w, h>>
    /\ Idle

-----------------------------------------------------------------------------
(* The loop thread: mouse_mover_loop and move_mouse_and_click *)

Alive(t) == pc[t] \notin {"unborn", "done"}

\* Inside the body of `while self.running` (lines 212-221).
InCycle(t) == pc[t] \in {"cycle", "move", "click", "except", "poll", "sleep"}

\* Mutant: `while True`, the loop condition ignores self.running.
LoopConditionAlways(t) ==
    /\ pc[t] = "while"
    /\ pc' = [pc EXCEPT ![t] = "cycle"]
    /\ UNCHANGED <<geometry, probe, display, running, thread, fg, calls, cand, exc,
                   slept, mouse, clicked>>

\* Line 211: the loop condition reads self.running.
LoopCondition(t) ==
    /\ pc[t] = "while"
    /\ pc' = [pc EXCEPT ![t] = IF running THEN "cycle" ELSE "done"]
    /\ UNCHANGED <<geometry, probe, display, running, thread, fg, calls, cand, exc,
                   slept, mouse, clicked>>

\* Lines 183-188: draw the candidate and classify it.  A randint that
\* raises ValueError enters the handler of line 200; an avoided candidate
\* returns at once, to the wait of line 218.
Generate(t) ==
    /\ pc[t] = "cycle"
    /\ LET points == get_random_position(screen_width, screen_height)
       IN  IF points = {}
           THEN /\ pc' = [pc EXCEPT ![t] = "except"]
                /\ exc' = [exc EXCEPT ![t] = "Exception"]
                /\ UNCHANGED <<cand, slept>>
           ELSE \E p \in points :
                IF is_position_in_avoid_region(avoid_regions, p[1], p[2])
                THEN /\ pc' = [pc EXCEPT ![t] = "poll"]
                     /\ slept' = [slept EXCEPT ![t] = 0]
                     /\ UNCHANGED <<cand, exc>>
                ELSE /\ pc' = [pc EXCEPT ![t] = "move"]
                     /\ cand' = [cand EXCEPT ![t] = p]
                     /\ UNCHANGED <<exc, slept>>
    /\ UNCHANGED <<geometry, probe, display, running, thread, fg, calls, mouse, clicked>>

\* Line 192: pyautogui.moveTo(x, y) succeeds.
MoveTo(t) ==
    /\ pc[t] = "move"
    /\ mouse' = cand[t]
    /\ clicked' = (clicked /\ mouse = cand[t])
    /\ pc' = [pc EXCEPT ![t] = "click"]
    /\ UNCHANGED <<geometry, probe, display, running, thread, fg, calls, cand, exc,
                   slept>>

\* Line 195: pyautogui.click() succeeds, at the pointer; lines 197-198 and
\* the return lead to the wait of line 218.
Click(t) ==
    /\ pc[t] = "click"
    /\ clicked' = TRUE
    /\ pc' = [pc EXCEPT ![t] = "poll"]
    /\ cand' = [cand EXCEPT ![t] = None]
    /\ slept' = [slept EXCEPT ![t] = 0]
    /\ UNCHANGED <<geometry, probe, display, running, thread, fg, calls, exc, mouse>>

\* Mutant: a failed moveTo is passed over and the click still follows.
RaiseSwallowed(t, e) ==
    /\ pc[t] \in {"move", "click"}
    /\ pc' = [pc EXCEPT ![t] = IF pc[t] = "move" THEN "click" ELSE "except"]
    /\ exc' = [exc EXCEPT ![t] = IF pc[t] = "move" THEN "none" ELSE e]
    /\ cand' = [cand EXCEPT ![t] = IF pc[t] = "move" THEN cand[t] ELSE None]
    /\ UNCHANGED <<geometry, probe, display, running, thread, fg, calls,
                   slept, mouse, clicked>>

\* Lines 192, 195: the call raises e, which line 200 catches.
Raise(t, e) ==
    /\ pc[t] \in {"move", "click"}
    /\ pc' = [pc EXCEPT ![t] = "except"]
    /\ exc' = [exc EXCEPT ![t] = e]
    /\ cand' = [cand EXCEPT ![t] = None]
    /\ UNCHANGED <<geometry, probe, display, running, thread, fg, calls, slept, mouse,
                   clicked>>

RaiseFailSafe(t) == Raise(t, "FailSafeException")

RaiseOther(t) == Raise(t, "Exception")

\* Mutant: the handler raises e again; the loop's own handler clears
\* running and breaks.
ExceptReraise(t) ==
    /\ pc[t] = "except"
    /\ pc' = [pc EXCEPT ![t] = "done"]
    /\ exc' = [exc EXCEPT ![t] = "none"]
    /\ running' = FALSE
    /\ UNCHANGED <<geometry, probe, display, thread, fg, calls, cand, slept, mouse,
                   clicked>>

\* Mutant: the handler leaves the loop and does not clear running.
ExceptBreaks(t) ==
    /\ pc[t] = "except"
    /\ pc' = [pc EXCEPT ![t] = "done"]
    /\ exc' = [exc EXCEPT ![t] = "none"]
    /\ UNCHANGED <<geometry, probe, display, running, thread, fg, calls,
                   cand, slept, mouse, clicked>>

\* Lines 200-201: the handler logs e and move_mouse_and_click returns
\* normally, to the wait of line 218.
Except(t) ==
    /\ pc[t] = "except"
    /\ pc' = [pc EXCEPT ![t] = "poll"]
    /\ exc' = [exc EXCEPT ![t] = "none"]
    /\ slept' = [slept EXCEPT ![t] = 0]
    /\ UNCHANGED <<geometry, probe, display, running, thread, fg, calls, cand, mouse,
                   clicked>>

\* Mutant: the wait does not read self.running.
PollNoBreak(t) ==
    /\ pc[t] = "poll"
    /\ pc' = [pc EXCEPT ![t] = "sleep"]
    /\ UNCHANGED <<geometry, probe, display, running, thread, fg, calls, cand, exc,
                   slept, mouse, clicked>>

\* Lines 219-220: the wait reads self.running and breaks when it is false.
Poll(t) ==
    /\ pc[t] = "poll"
    /\ IF running
       THEN /\ pc' = [pc EXCEPT ![t] = "sleep"]
            /\ UNCHANGED slept
       ELSE /\ pc' = [pc EXCEPT ![t] = "while"]
            /\ slept' = [slept EXCEPT ![t] = 0]
    /\ UNCHANGED <<geometry, probe, display, running, thread, fg, calls, cand, exc,
                   mouse, clicked>>

\* Mutant: a completed wait goes straight into the next cycle.
SleepThenCycle(t) ==
    /\ pc[t] = "sleep"
    /\ IF slept[t] + 1 < WaitIters
       THEN /\ pc' = [pc EXCEPT ![t] = "poll"]
            /\ slept' = [slept EXCEPT ![t] = slept[t] + 1]
       ELSE /\ pc' = [pc EXCEPT ![t] = "cycle"]
            /\ slept' = [slept EXCEPT ![t] = 0]
    /\ UNCHANGED <<geometry, probe, display, running, thread, fg, calls,
                   cand, exc, mouse, clicked>>

\* Mutant: range(49).
SleepOneShort(t) ==
    /\ pc[t] = "sleep"
    /\ IF slept[t] + 1 < WaitIters - 1
       THEN /\ pc' = [pc EXCEPT ![t] = "poll"]
            /\ slept' = [slept EXCEPT ![t] = slept[t] + 1]
       ELSE /\ pc' = [pc EXCEPT ![t] = "while"]
            /\ slept' = [slept EXCEPT ![t] = 0]
    /\ UNCHANGED <<geometry, probe, display, running, thread, fg, calls,
                   cand, exc, mouse, clicked>>

\* Line 221: one time.sleep(0.1) of the range(50) of line 218.
Sleep(t) ==
    /\ pc[t] = "sleep"
    /\ IF slept[t] + 1 < WaitIters
       THEN /\ pc' = [pc EXCEPT ![t] = "poll"]
            /\ slept' = [slept EXCEPT ![t] = slept[t] + 1]
       ELSE /\ pc' = [pc EXCEPT ![t] = "while"]
            /\ slept' = [slept EXCEPT ![t] = 0]
    /\ UNCHANGED <<geometry, probe, display, running, thread, fg, calls, cand, exc,
                   mouse, clicked>>

LoopStep(t) ==
    \/ LoopCondition(t)
    \/ Generate(t)
    \/ MoveTo(t)
    \/ Click(t)
    \/ RaiseFailSafe(t)
    \/ RaiseOther(t)
    \/ Except(t)
    \/ Poll(t)
    \/ Sleep(t)

-----------------------------------------------------------------------------
(* The foreground: a caller of start() and stop() *)

BetweenCalls == fg \in {"ready", "started", "stopped"}

CallStart ==
    /\ ctor = "ready"
    /\ BetweenCalls
    /\ calls < MaxCalls
    /\ fg' = "start"
    /\ calls' = calls + 1
    /\ UNCHANGED <<geometry, probe, display, running, thread, pc, cand, exc, slept,
                   mouse, clicked>>

\* Mutant: start() without the check of line 245.
StartCheckAbsent ==
    /\ fg = "start"
    /\ fg' = "spawn"
    /\ running' = TRUE
    /\ UNCHANGED <<geometry, probe, display, thread, calls, pc, cand, exc, slept,
                   mouse, clicked>>

\* Lines 245-249: return when already running, else set the flag.
StartCheck ==
    /\ fg = "start"
    /\ IF running
       THEN /\ fg' = "started"
            /\ UNCHANGED running
       ELSE /\ fg' = "spawn"
            /\ running' = TRUE
    /\ UNCHANGED <<geometry, probe, display, thread, calls, pc, cand, exc, slept,
                   mouse, clicked>>

\* Mutant: start() derives the avoidance regions again.
StartSpawnRedefines ==
    /\ fg = "spawn"
    /\ \E t \in Threads :
        /\ pc[t] = "unborn"
        /\ \A u \in Threads : u < t => pc[u] # "unborn"
        /\ thread' = t
        /\ pc' = [pc EXCEPT ![t] = "while"]
    /\ fg' = "started"
    /\ avoid_regions' =
           DefineAvoidRegions(avoid_regions, screen_width, screen_height)
    /\ UNCHANGED <<ctor, screen_width, screen_height, probe, display,
                   running, calls, cand, exc, slept, mouse, clicked>>

\* Lines 252-253: a new thread is stored in self.thread and started.
StartSpawn ==
    /\ fg = "spawn"
    /\ \E t \in Threads :
        /\ pc[t] = "unborn"
        /\ \A u \in Threads : u < t => pc[u] # "unborn"
        /\ thread' = t
        /\ pc' = [pc EXCEPT ![t] = "while"]
    /\ fg' = "started"
    /\ UNCHANGED <<geometry, probe, display, running, calls, cand, exc, slept, mouse,
                   clicked>>

CallStop ==
    /\ ctor = "ready"
    /\ BetweenCalls
    /\ calls < MaxCalls
    /\ fg' = "stop"
    /\ calls' = calls + 1
    /\ UNCHANGED <<geometry, probe, display, running, thread, pc, cand, exc, slept,
                   mouse, clicked>>

\* Lines 261-262: clear the flag; join only a thread that is alive.
StopClear ==
    /\ fg = "stop"
    /\ running' = FALSE
    /\ fg' = IF thread # 0 /\ Alive(thread) THEN "join" ELSE "stopped"
    /\ UNCHANGED <<geometry, probe, display, thread, calls, pc, cand, exc, slept,
                   mouse, clicked>>

\* Line 265: join(timeout=1) returns because the thread has ended.
StopJoinEnded ==
    /\ fg = "join"
    /\ ~Alive(thread)
    /\ fg' = "stopped"
    /\ UNCHANGED <<geometry, probe, display, running, thread, calls, pc, cand, exc,
                   slept, mouse, clicked>>

\* Mutant: join() without a timeout returns only when the thread has ended.
StopJoinNoTimeout ==
    /\ fg = "join"
    /\ ~Alive(thread)
    /\ fg' = "stopped"
    /\ UNCHANGED <<geometry, probe, display, running, thread, calls, pc, cand, exc,
                   slept, mouse, clicked>>

\* Line 265: join(timeout=1) returns because the second has passed, the
\* thread still alive.
StopJoinTimeout ==
    /\ fg = "join"
    /\ Alive(thread)
    /\ fg' = "stopped"
    /\ UNCHANGED <<geometry, probe, display, running, thread, calls, pc, cand, exc,
                   slept, mouse, clicked>>

-----------------------------------------------------------------------------

Next ==
    \/ \E t \in Threads : LoopCondition(t)
    \/ \E t \in Threads : Generate(t)
    \/ \E t \in Threads : MoveTo(t)
    \/ \E t \in Threads : Click(t)
    \/ \E t \in Threads : RaiseFailSafe(t)
    \/ \E t \in Threads : RaiseOther(t)
    \/ \E t \in Threads : Except(t)
    \/ \E t \in Threads : Poll(t)
    \/ \E t \in Threads : Sleep(t)
    \/ CallStart
    \/ StartCheck
    \/ StartSpawn
    \/ CallStop
    \/ StopClear
    \/ StopJoinEnded
    \/ StopJoinTimeout

Spec == Init /\ [][Next]_vars

\* Termination does not depend on the size of the display: the fair
\* behaviours are checked on the smallest display the generator works on
\* and on one it raises ValueError on.
InitFair ==
    /\ Init
    /\ screen_width = 2 * margin
    /\ screen_height \in {2 * margin - 1, 2 * margin}

\* The loop threads keep taking steps (moveTo, click and sleep return),
\* and a call of start() or stop() runs to its return.
FairSpec ==
    /\ InitFair
    /\ [][Next]_vars
    /\ \A t \in Threads : WF_vars(LoopStep(t))
    /\ WF_vars(StartCheck \/ StartSpawn \/ StopClear \/ StopJoinEnded
               \/ StopJoinTimeout)

-----------------------------------------------------------------------------
(* The foreground of main(): start(), wait while running, stop() on Ctrl+C *)

\* Line 293: mover.start().
MainStart ==
    /\ ctor = "ready"
    /\ fg = "ready"
    /\ fg' = "start"
    /\ calls' = calls + 1
    /\ UNCHANGED <<geometry, probe, display, running, thread, pc, cand, exc, slept,
                   mouse, clicked>>

\* Lines 297-298: sleep a second and test mover.running again; leave the
\* try statement when it is false.
MainWait ==
    /\ fg = "started"
    /\ fg' = IF running THEN "started" ELSE "stopped"
    /\ UNCHANGED <<geometry, probe, display, running, thread, calls, pc, cand, exc,
                   slept, mouse, clicked>>

\* Line 300: KeyboardInterrupt is raised in the main thread inside the try
\* statement, in start() or in the wait.  An interrupt that arrives while
\* the handler itself runs is not part of the model.
Interrupt ==
    /\ fg \in {"start", "spawn", "started"}
    /\ fg' = "interrupted"
    /\ UNCHANGED <<geometry, probe, display, running, thread, calls, pc, cand, exc,
                   slept, mouse, clicked>>

\* Mutant: the handler reports the interrupt and does not call stop().
MainHandleNoStop ==
    /\ fg = "interrupted"
    /\ fg' = "stopped"
    /\ UNCHANGED <<geometry, probe, display, running, thread, calls, pc, cand, exc,
                   slept, mouse, clicked>>

\* Lines 302-303: the handler calls mover.stop().
MainHandle ==
    /\ fg = "interrupted"
    /\ fg' = "stop"
    /\ calls' = calls + 1
    /\ UNCHANGED <<geometry, probe, display, running, thread, pc, cand, exc, slept,
                   mouse, clicked>>

\* Line 309: the try statement is left, main() prints and returns.
MainFinish ==
    /\ fg = "stopped"
    /\ fg' = "finished"
    /\ UNCHANGED <<geometry, probe, display, running, thread, calls, pc, cand, exc,
                   slept, mouse, clicked>>

NextMain ==
    \/ \E t \in Threads : LoopCondition(t)
    \/ \E t \in Threads : Generate(t)
    \/ \E t \in Threads : MoveTo(t)
    \/ \E t \in Threads : Click(t)
    \/ \E t \in Threads : RaiseFailSafe(t)
    \/ \E t \in Threads : RaiseOther(t)
    \/ \E t \in Threads : Except(t)
    \/ \E t \in Threads : Poll(t)
    \/ \E t \in Threads : Sleep(t)
    \/ MainStart
    \/ StartCheck
    \/ StartSpawn
    \/ MainWait
    \/ Interrupt
    \/ MainHandle
    \/ StopClear
    \/ StopJoinEnded
    \/ StopJoinTimeout
    \/ MainFinish

\* main() runs on; the interrupt is the user's to send or not.
FairMain ==
    /\ InitFair
    /\ [][NextMain]_vars
    /\ \A t \in Threads : WF_vars(LoopStep(t))
    /\ WF_vars(StartCheck \/ StartSpawn \/ MainHandle \/ StopClear
               \/ StopJoinEnded \/ StopJoinTimeout \/ MainFinish)

-----------------------------------------------------------------------------
(* Construction, and direct calls of the point classifier *)

\* The bounds the display may report.
GeometryBounds == {<<1920, 1080>>} \cup (Dims \X Dims)

\* Points on, just inside and just outside every edge of every region,
\* and the two points of the 1920x1080 scenario.
ProbeXs(regions) ==
    {960, 1800} \cup UNION {{regions[k][1] + d, regions[k][3] + d} :
                              k \in 1 .. Len(regions), d \in {-1, 0, 1}}

ProbeYs(regions) ==
    {15, 540} \cup UNION {{regions[k][2] + d, regions[k][4] + d} :
                            k \in 1 .. Len(regions), d \in {-1, 0, 1}}

\* Lines 59-60: __init__ before the display is queried.  The primary
\* monitor is one of GeometryBounds and stands alone or beside a second
\* monitor of its size; win32api is there or not, and when it is there
\* its query answers or raises.
InitGeometry ==
    /\ ctor = "resolve"
    /\ screen_width = 0
    /\ screen_height = 0
    /\ avoid_regions = <<>>
    /\ \E b \in GeometryBounds, monitors \in {1, 2} :
        /\ virtual_size = <<b[1] * monitors, b[2]>>
        /\ \/ windows_available = TRUE /\ os_query = <<0, 0, b[1], b[2]>>
           \/ windows_available \in BOOLEAN /\ os_query = QueryRaises
    /\ Idle

\* Lines 69, 76: the resolved bounds are stored, the region list is empty.
ResolveBounds ==
    /\ ctor = "resolve"
    /\ LET size == get_primary_monitor_size(windows_available, os_query,
                                            virtual_size)
       IN  /\ screen_width' = size[1]
           /\ screen_height' = size[2]
    /\ avoid_regions' = <<>>
    /\ ctor' = "regions"
    /\ UNCHANGED <<probe, display, running, thread, fg, calls, pc, cand, exc, slept,
                   mouse, clicked>>

\* Line 77: self._define_avoid_regions().
DefineRegions ==
    /\ ctor = "regions"
    /\ avoid_regions' =
           DefineAvoidRegions(avoid_regions, screen_width, screen_height)
    /\ ctor' = "ready"
    /\ UNCHANGED <<screen_width, screen_height, probe, display, running, thread, fg,
                   calls, pc, cand, exc, slept, mouse, clicked>>

\* A call of is_position_in_avoid_region(x, y) on the constructed object.
Classify ==
    /\ ctor = "ready"
    /\ \E x \in ProbeXs(avoid_regions), y \in ProbeYs(avoid_regions) :
        /\ arg' = <<x, y>>
        /\ ret' = is_position_in_avoid_region(avoid_regions, x, y)
    /\ UNCHANGED <<geometry, display, running, thread, fg, calls, pc, cand,
                   exc, slept, mouse, clicked>>

NextGeometry ==
    \/ ResolveBounds
    \/ DefineRegions
    \/ Classify

SpecGeometry == InitGeometry /\ [][NextGeometry]_vars

-----------------------------------------------------------------------------
(* Properties *)

AllEnded == \A t \in Threads : ~Alive(t)

InInset(p) ==
    /\ 50 <= p[1] /\ p[1] <= screen_width - 50
    /\ 50 <= p[2] /\ p[2] <= screen_height - 50

\* Some region holds (x, y), all four edges inclusive.
InSomeRegion(x, y) ==
    \E k \in 1 .. Len(avoid_regions) :
        /\ avoid_regions[k][1] <= x /\ x <= avoid_regions[k][3]
        /\ avoid_regions[k][2] <= y /\ y <= avoid_regions[k][4]

OnAnEdge(x, y) ==
    \E k \in 1 .. Len(avoid_regions) :
        /\ avoid_regions[k][1] <= x /\ x <= avoid_regions[k][3]
        /\ avoid_regions[k][2] <= y /\ y <= avoid_regions[k][4]
        /\ \/ x \in {avoid_regions[k][1], avoid_regions[k][3]}
           \/ y \in {avoid_regions[k][2], avoid_regions[k][4]}

(* C1: when a pointer move or click raises the failsafe exception, the
   step that handles it leaves running false and the loop thread ended,
   so that the thread starts no later cycle. *)
C1_FailsafeStopsLoop ==
    [][\A t \in Threads :
          (pc[t] = "except" /\ exc[t] = "FailSafeException" /\ pc'[t] # pc[t])
              => (running' = FALSE /\ pc'[t] = "done")]_vars

(* C2, as stated: when candidate generation, a pointer move or a click
   raises another exception, the step that handles it leaves running
   false and the loop thread ended. *)
C2_ErrorStopsLoop ==
    [][\A t \in Threads :
          (pc[t] = "except" /\ exc[t] = "Exception" /\ pc'[t] # pc[t])
              => (running' = FALSE /\ pc'[t] = "done")]_vars

(* C2, amended: a non-failsafe exception raised by candidate generation,
   a pointer move or a click is caught inside the cycle and ends that
   cycle only: the handler leaves running, the thread handle, the pointer
   and the last click as they were, the thread stays alive and goes on to
   the inter-cycle wait, all of its sleeps still to do. *)
C2_ErrorEndsCycleOnly ==
    [][\A t \in Threads :
          /\ (pc[t] \in {"cycle", "move", "click"} /\ exc'[t] = "Exception")
                => (pc'[t] = "except" /\ running' = running
                    /\ mouse' = mouse /\ clicked' = clicked)
          /\ (pc[t] = "except" /\ exc[t] = "Exception" /\ pc'[t] # pc[t])
                => (pc'[t] = "poll" /\ slept'[t] = 0 /\ running' = running
                    /\ thread' = thread /\ mouse' = mouse
                    /\ clicked' = clicked)]_vars

\* A click has failed after a successful move, and the handler holds the
\* exception while the mover is Running.
C2_Witness ==
    \E t \in Threads :
        /\ pc[t] = "except" /\ exc[t] = "Exception"
        /\ running /\ mouse # None

(* C3: once stop() has returned, running is false, and unless start() is
   called again every loop thread eventually ends. *)
C3_StartStopTerminates ==
    [](fg = "stopped" => (~running /\ <>(fg = "start" \/ AllEnded)))

\* start() then stop(): stop() has returned and the loop thread has ended.
C3_Witness ==
    /\ fg = "stopped" /\ calls = 2
    /\ thread # 0 /\ pc[thread] = "done"
    /\ ~running

(* C4: start() called while running is true returns without writing
   running, without replacing the thread handle and without starting a
   thread. *)
C4_StartWhileRunningIsNoop ==
    [][(fg = "start" /\ running /\ fg' # fg)
          => (fg' = "started" /\ running' = TRUE /\ thread' = thread
              /\ pc' = pc)]_vars

\* start() has been called while the mover runs and its thread is alive.
C4_Witness ==
    /\ fg = "start" /\ running
    /\ thread # 0 /\ Alive(thread)

(* C5: at most one loop thread is alive and inside the loop body. *)
C5_AtMostOneLoop ==
    Cardinality({t \in Threads : InCycle(t)}) <= 1

(* C6: stop() can always take its next step: after it has cleared running
   the join returns whether the thread has ended or not, and running is
   false while it joins and when it has returned. *)
C6_StopClearsAndReturns ==
    /\ fg = "stop" => ENABLED StopClear
    /\ fg = "join" => (~running /\ ENABLED (StopJoinEnded \/ StopJoinTimeout))
    /\ fg = "stopped" => ~running

\* stop() has returned although the thread it joined is still alive.
C6_Witness ==
    /\ fg = "stopped"
    /\ thread # 0 /\ Alive(thread)

(* C7: with width > 100 and height > 100, every candidate, every point
   the pointer was moved to and every point clicked at lies in
   [50, width - 50] x [50, height - 50]. *)
C7_CandidateInInset ==
    (screen_width > 100 /\ screen_height > 100)
        => /\ \A t \in Threads : cand[t] # None => InInset(cand[t])
           /\ mouse # None => InInset(mouse)
           /\ clicked => (mouse # None /\ InInset(mouse))

\* The far corner of the inset rectangle has been clicked.
C7_Witness ==
    /\ screen_width > 100 /\ screen_height > 100
    /\ mouse = <<screen_width - 50, screen_height - 50>>
    /\ clicked

(* C9: the classifier returns true exactly for the points that some
   region holds with all four edges inclusive; under 1920x1080 it returns
   true for (1800, 15) and false for (960, 540). *)
C9_ClassifierInclusive ==
    (ctor = "ready" /\ arg # None)
        => /\ ret = InSomeRegion(arg[1], arg[2])
           /\ OnAnEdge(arg[1], arg[2]) => ret
           /\ (screen_width = 1920 /\ screen_height = 1080)
                 => /\ arg = <<1800, 15>> => ret
                    /\ arg = <<960, 540>> => ~ret

\* The corner (1770, 30) of the top-right region is classified as avoided.
C9_Witness ==
    /\ screen_width = 1920 /\ screen_height = 1080
    /\ arg = <<1770, 30>> /\ ret

(* C10: for bounds (w, h) the region list is the sequence
   (w-150, 0, w, 30), (0, h-40, 100, h), (0, h-40, w, h); for 1920x1080
   it is (1770, 0, 1920, 30), (0, 1040, 100, 1080), (0, 1040, 1920, 1080). *)
C10_RegionsFromBounds ==
    ctor = "ready"
        => /\ avoid_regions =
                <<<<screen_width - 150, 0, screen_width, 30>>,
                  <<0, screen_height - 40, 100, screen_height>>,
                  <<0, screen_height - 40, screen_width, screen_height>>>>
           /\ (screen_width = 1920 /\ screen_height = 1080)
                 => avoid_regions = <<<<1770, 0, 1920, 30>>,
                                      <<0, 1040, 100, 1080>>,
                                      <<0, 1040, 1920, 1080>>>>

\* The object has been constructed for a 1920x1080 display.
C10_Witness ==
    /\ ctor = "ready"
    /\ screen_width = 1920 /\ screen_height = 1080
    /\ Len(avoid_regions) = 3

(* C11: while running is false a loop thread in its wait starts no
   further sleep and no further cycle: the sleep in progress ends, the
   next read of running leaves the wait, the loop condition ends the
   thread; and unless start() is called again the thread does end. *)
C11_StopHonoredInWait ==
    /\ [][\A t \in Threads :
             (~running /\ pc'[t] # pc[t])
                 => /\ pc[t] = "poll" => pc'[t] = "while"
                    /\ pc[t] = "sleep" => pc'[t] \in {"poll", "while"}
                    /\ pc[t] = "while" => pc'[t] = "done"]_vars
    /\ \A t \in Threads :
          []((~running /\ pc[t] \in {"poll", "sleep"})
                 => <>(pc[t] = "done" \/ fg = "start"))

\* stop() has cleared running during one of the first sleeps of a wait.
C11_Witness ==
    \E t \in Threads :
        /\ ~running /\ fg \in {"join", "stopped"}
        /\ pc[t] = "sleep" /\ slept[t] < 10

(* C12: an interrupt that reaches main() while the mover runs is handled
   by calling stop(); main() then reaches its end with running false,
   and the loop thread ends. *)
C12_InterruptShutsDown ==
    /\ [][(fg = "interrupted" /\ fg' # fg) => fg' = "stop"]_vars
    /\ []((fg = "interrupted" /\ running)
             => <>(fg = "finished" /\ ~running /\ AllEnded))

\* main() has finished after an interrupt and the loop thread has ended.
C12_Witness ==
    /\ fg = "finished" /\ calls = 2
    /\ ~running
    /\ thread # 0 /\ pc[thread] = "done"

(* C13: the resolver always returns bounds: right-left and bottom-top of
   the OS answer when win32api is available and its query answers, and
   the size pyautogui.size() gives when win32api is missing or its query
   raises. *)
C13_ResolverFallsBack ==
    /\ ctor = "resolve" => ENABLED ResolveBounds
    /\ ctor # "resolve"
          => <<screen_width, screen_height>> =
                CASE windows_available /\ os_query # QueryRaises
                        -> <<os_query[3] - os_query[1],
                             os_query[4] - os_query[2]>>
                  [] windows_available /\ os_query = QueryRaises
                        -> virtual_size
                  [] ~windows_available -> virtual_size

\* The OS query raised, and the bounds are those of the two-monitor
\* virtual screen.
C13_Witness ==
    /\ ctor = "ready"
    /\ windows_available /\ os_query = QueryRaises
    /\ virtual_size = <<3840, 1080>>
    /\ screen_width = 3840 /\ screen_height = 1080

(* C14: within a cycle the click follows a successful move to the
   cycle's candidate: a candidate that is not avoided is moved to next,
   the click is reached only from that move, which leaves the pointer
   at the candidate; a move that fails leads to the handler and the wait,
   not to the click; and after its one click the cycle is over. *)
C14_MoveThenOneClick ==
    [][\A t \in Threads :
          /\ (pc[t] = "cycle" /\ cand'[t] # None) => pc'[t] = "move"
          /\ (pc'[t] = "click" /\ pc[t] # "click")
                => (pc[t] = "move" /\ cand[t] # None /\ mouse' = cand[t]
                    /\ cand'[t] = cand[t])
          /\ (pc[t] = "move" /\ pc'[t] # pc[t])
                => pc'[t] \in {"click", "except"}
          /\ (pc[t] = "except" /\ pc'[t] # pc[t]) => pc'[t] = "poll"
          /\ (pc[t] = "click" /\ pc'[t] # pc[t])
                => \/ pc'[t] = "poll" /\ clicked'
                   \/ pc'[t] = "except" /\ clicked' = clicked]_vars

\* A cycle has moved the pointer to its candidate and is about to click.
C14_Witness ==
    \E t \in Threads :
        /\ pc[t] = "click"
        /\ cand[t] # None /\ mouse = cand[t]

(* C15: every cycle, however it ends, is followed by the wait, which
   begins with no sleep done; each sleep is entered from a read of
   running that found it true; while running is read true the wait is
   left only after its 50th sleep, and a candidate is generated only
   after the loop condition has read running true. *)
C15_FiftySleepsBetweenCycles ==
    [][\A t \in Threads :
          /\ (pc[t] \in {"cycle", "click", "except"}
              /\ pc'[t] \notin {pc[t], "move", "click", "except"})
                => (pc'[t] = "poll" /\ slept'[t] = 0)
          /\ (pc'[t] = "sleep" /\ pc[t] # "sleep")
                => (pc[t] = "poll" /\ running /\ slept'[t] = slept[t])
          /\ (pc[t] = "poll" /\ running /\ pc'[t] # pc[t])
                => pc'[t] = "sleep"
          /\ (pc[t] = "sleep" /\ pc'[t] # pc[t])
                => IF slept[t] < 49
                   THEN pc'[t] = "poll" /\ slept'[t] = slept[t] + 1
                   ELSE pc'[t] = "while"
          /\ (pc'[t] = "cycle" /\ pc[t] # "cycle")
                => (pc[t] = "while" /\ running)]_vars

\* The 50th sleep of a wait, running still true.
C15_Witness ==
    \E t \in Threads :
        /\ pc[t] = "sleep" /\ slept[t] = 49
        /\ running

(* C16: in every state after construction the bounds are those the
   resolver gave for the display, and the region list is the three
   regions derived from them: no call, cycle or failure changes them. *)
C16_GeometryFixed ==
    ctor = "ready"
        => /\ <<screen_width, screen_height>> =
                 IF windows_available /\ os_query # QueryRaises
                 THEN <<os_query[3] - os_query[1], os_query[4] - os_query[2]>>
                 ELSE virtual_size
           /\ avoid_regions =
                 <<<<screen_width - 150, 0, screen_width, 30>>,
                   <<0, screen_height - 40, 100, screen_height>>,
                   <<0, screen_height - 40, screen_width, screen_height>>>>

\* After start(), a click, stop() and a second start(), a cycle has failed.
C16_Witness ==
    /\ calls = 3 /\ fg = "started" /\ thread = 2
    /\ clicked
    /\ \E t \in Threads : pc[t] = "except"
    /\ Len(avoid_regions) = 3

(* C17: while running is false no loop thread begins a cycle: a thread
   moves only in the cycle it was already in, clicks only after that
   move, and then leaves the wait and ends; unless start() is called
   again every loop thread does end. *)
C17_AtMostOneMoreCycle ==
    /\ [][\A t \in Threads :
             ~running
                 => /\ pc'[t] = "cycle" => pc[t] = "cycle"
                    /\ pc'[t] = "move" => pc[t] \in {"cycle", "move"}
                    /\ pc'[t] = "click" => pc[t] \in {"move", "click"}
                    /\ (pc[t] \in {"click", "except"} /\ pc'[t] # pc[t])
                          => pc'[t] \in {"poll", "except"}
                    /\ (pc[t] = "poll" /\ pc'[t] # pc[t])
                          => pc'[t] = "while"]_vars
    /\ \A t \in Threads :
          []((~running /\ Alive(t)) => <>(~Alive(t) \/ fg = "start"))

\* stop() has returned and a loop thread that had passed the loop
\* condition is about to click.
C17_Witness ==
    /\ fg = "stopped" /\ ~running
    /\ \E t \in Threads : pc[t] = "click"

(* C18: with width >= 100 and height >= 100 the classifier returns false
   for every point the generator can return, and a cycle that draws a
   candidate goes on to move to it: the skip is never taken. *)
C18_NoCandidateAvoided ==
    /\ []((screen_width >= 100 /\ screen_height >= 100)
             => \A p \in get_random_position(screen_width, screen_height) :
                   /\ ~is_position_in_avoid_region(avoid_regions, p[1], p[2])
                   /\ ~InSomeRegion(p[1], p[2]))
    /\ [][\A t \in Threads :
             (pc[t] = "cycle" /\ pc'[t] # pc[t])
                 => IF screen_width >= 100 /\ screen_height >= 100
                    THEN pc'[t] = "move" /\ cand'[t] # None
                    ELSE pc'[t] = "except"]_vars

\* On the smallest display the generator works on, the one candidate
\* (50, 50) is about to be moved to.
C18_Witness ==
    /\ screen_width = 100 /\ screen_height = 100
    /\ \E t \in Threads : pc[t] = "move" /\ cand[t] = <<50, 50>>

(* C19: a loop thread ends only in a step that reads running false, and
   whenever the most recently started thread has ended running is false
   (start() between setting running and starting its thread aside). *)
C19_LoopEndsOnlyWhenStopped ==
    /\ [][\A t \in Threads :
             (pc'[t] = "done" /\ pc[t] # "done")
                 => (pc[t] = "while" /\ ~running /\ ~running')]_vars
    /\ []((thread # 0 /\ pc[thread] = "done" /\ fg # "spawn") => ~running)

\* The loop thread, having clicked, has ended while stop() waits in join.
C19_Witness ==
    /\ fg = "join" /\ ~running
    /\ thread = 1 /\ pc[1] = "done"
    /\ clicked

=============================================================================
